---- MODULE Spec2Model ----
(***************************************************************************)
(* Model of the gap-fill planner nodes of iox_query/src/exec/gapfill.rs:   *)
(* the logical node GapFill, the planning bridge plan_gap_fill and the     *)
(* physical node GapFillExec.                                              *)
(*                                                                         *)
(* Indices of columns are 0-based as in the source; TLA+ sequences are     *)
(* 1-based, so position i of a sequence holds index i-1.                   *)
(***************************************************************************)
EXTENDS Integers, Sequences, FiniteSets, TLC

VARIABLES pc, gapfill, exec, call, result

vars == <<pc, gapfill, exec, call, result>>

----------------------------------------------------------------------------
(* Bounds of the model *)

MaxGroup == 3
MaxAggr == 1
MaxInputs == 2
MaxPartition == 2
MaxRows == 1

----------------------------------------------------------------------------
(* Expressions, schemas and plans *)

\* A sequence of length <= n over S
SeqUpTo(S, n) == UNION {[1..k -> S] : k \in 0..n}

\* logical Expr::Column(name)
ColE(n) == [kind |-> "Column", name |-> n, val |-> 0]

\* logical Expr::Literal(v)
LitE(v) == [kind |-> "Literal", name |-> "", val |-> v]

\* physical expressions::Column { name, index }
PhysColumn(n, i) == [kind |-> "Column", name |-> n, index |-> i, val |-> 0]

\* physical expressions::Literal
PhysLiteral(v) == [kind |-> "Literal", name |-> "", index |-> -1, val |-> v]

\* the schema of the tests' table, and the same columns with time not first
SchemaTimeFirst == <<"time", "loc", "temp">>

SchemaTimeSecond == <<"loc", "time", "temp">>

Schemas == {SchemaTimeFirst, SchemaTimeSecond}

\* the logical plans that may be the input of a GapFill
LogicalPlans == {[plan |-> "scan", schema |-> s] : s \in Schemas}

\* the physical plans that may be the input of a GapFillExec
PhysicalPlans == {[plan |-> "aggregate", schema |-> s] : s \in Schemas}

\* the expressions a group list is made of
GroupExprs == {ColE("time"), ColE("loc"), LitE(7)}

\* the expressions an aggregate list is made of
AggrExprs == {ColE("temp")}

\* the stride literals: negative, zero, positive
Strides == {LitE(-1), LitE(0), LitE(1)}

TimeColumns == {ColE("time")}

\* std::ops::Bound<Expr>
Included(e) == [bound |-> "Included", e |-> e]

Excluded(e) == [bound |-> "Excluded", e |-> e]

Unbounded == [bound |-> "Unbounded"]

RangeLo == 0

RangeHi == 2

\* the ranges the tests use, Included(lo)..Excluded(hi), and ranges with an
\* endpoint no predicate bounds
StartBounds == {Included(LitE(RangeLo)), Unbounded}

EndBounds == {Excluded(LitE(RangeHi)), Unbounded}

\* GapFillParams { stride, time_column, time_range }
GapFillParams == [stride : Strides, time_column : TimeColumns,
                  time_range : [start : StartBounds, end : EndBounds]]

----------------------------------------------------------------------------
(* Results *)

Ok(v) == [kind |-> "Ok", msg |-> "", v |-> v]

Err(k, m) == [kind |-> k, msg |-> m, v |-> "none"]

Internal(m) == Err("Internal", m)

IsOk(r) == r.kind = "Ok"

----------------------------------------------------------------------------
(* The logical node *)

\* GapFill::try_new
GapFill_try_new(input, group_expr, aggr_expr, params) ==
    Ok([input |-> input, group_expr |-> group_expr,
        aggr_expr |-> aggr_expr, params |-> params])

\* GapFill::inputs
GapFill_inputs(self) == <<self.input>>

\* GapFill::schema
GapFill_schema(self) == self.input.schema

\* GapFill::expressions
expressions(self) == self.group_expr \o self.aggr_expr

\* Vec::split_off(at): the pair <<self[0..at), self[at..)>>; panics if at > len
split_off(v, at) == <<SubSeq(v, 1, at), SubSeq(v, at + 1, Len(v))>>

\* from_template splitting by the number of aggregates instead of |G|
from_template_split_aggr(self, exprs, inputs) ==
    LET at == IF Len(exprs) >= Len(self.aggr_expr)
              THEN Len(exprs) - Len(self.aggr_expr) ELSE 0
        parts == split_off(exprs, at)
    IN  GapFill_try_new(inputs[1], parts[1], parts[2], self.params).v

\* GapFill::from_template; defined when Len(exprs) >= |G| and inputs is not empty
from_template(self, exprs, inputs) ==
    LET parts == split_off(exprs, Len(self.group_expr))
    IN  GapFill_try_new(inputs[1], parts[1], parts[2], self.params).v

----------------------------------------------------------------------------
(* The physical planning bridge *)

\* Schema::index_of: the 0-based index of the first field of that name, -1 if none
index_of(schema, name) ==
    IF \E i \in 1..Len(schema) : schema[i] = name
    THEN (CHOOSE i \in 1..Len(schema) :
            schema[i] = name /\ \A j \in 1..(i - 1) : schema[j] # name) - 1
    ELSE -1

\* datafusion's create_physical_expr: a column is resolved against the logical
\* schema, a literal needs no schema
create_physical_expr(e, input_dfschema, input_schema) ==
    IF e.kind = "Column"
    THEN IF index_of(input_dfschema, e.name) >= 0
         THEN Ok(PhysColumn(e.name, index_of(input_dfschema, e.name)))
         ELSE Err("SchemaError", "field not found")
    ELSE Ok(PhysLiteral(e.val))

\* iter().map(f).collect::<Result<Vec<_>>>(): the first error, else all values
try_collect(rs) ==
    IF \E i \in 1..Len(rs) : ~IsOk(rs[i])
    THEN LET first == CHOOSE i \in 1..Len(rs) :
                        ~IsOk(rs[i]) /\ \A j \in 1..(i - 1) : IsOk(rs[j])
         IN  Err(rs[first].kind, rs[first].msg)
    ELSE Ok([i \in 1..Len(rs) |-> rs[i].v])

\* Expr::try_into_col
try_into_col(e) ==
    IF e.kind = "Column" THEN Ok(e) ELSE Err("Plan", "could not coerce into column")

\* Column::new_with_schema
Column_new_with_schema(name, schema) ==
    IF index_of(schema, name) >= 0
    THEN Ok(PhysColumn(name, index_of(schema, name)))
    ELSE Err("ArrowError", "unable to get field named")

\* try_map_bound; the closure f is a function from T to Result<U>
try_map_bound(bt, f) ==
    CASE bt.bound = "Excluded" ->
            IF IsOk(f[bt.e]) THEN Ok([bound |-> "Excluded", e |-> f[bt.e].v])
            ELSE Err(f[bt.e].kind, f[bt.e].msg)
      [] bt.bound = "Included" ->
            IF IsOk(f[bt.e]) THEN Ok([bound |-> "Included", e |-> f[bt.e].v])
            ELSE Err(f[bt.e].kind, f[bt.e].msg)
      [] bt.bound = "Unbounded" -> Ok([bound |-> "Unbounded"])

\* try_map_range; the closure f is a function from T to Result<U>
try_map_range(tr, f) ==
    IF ~IsOk(f[tr.start]) THEN Err(f[tr.start].kind, f[tr.start].msg)
    ELSE IF ~IsOk(f[tr.end]) THEN Err(f[tr.end].kind, f[tr.end].msg)
    ELSE Ok([start |-> f[tr.start].v, end |-> f[tr.end].v])

\* SortOptions::default()
SortOptions_default == [descending |-> FALSE, nulls_first |-> TRUE]

\* Vec::swap
swap(v, a, b) ==
    [i \in 1..Len(v) |-> IF i = a THEN v[b] ELSE IF i = b THEN v[a] ELSE v[i]]

\* a closure that takes any column for the time column
is_time_column_any(e, params) == e.kind = "Column"

\* the closure of find in GapFillExec::try_new
is_time_column(e, params) ==
    IF e.kind = "Column" THEN e.index = params.time_column.index ELSE FALSE

\* try_new without the swap of the time column to the end
GapFillExec_try_new_no_swap(input, group_expr, aggr_expr, params) ==
    LET sort_expr == [i \in 1..Len(group_expr) |->
                        [expr |-> group_expr[i], options |-> SortOptions_default]]
        found == {i \in 1..Len(group_expr) : is_time_column(group_expr[i], params)}
    IN  IF found # {}
        THEN Ok([input |-> input, group_expr |-> group_expr,
                 aggr_expr |-> aggr_expr, sort_expr |-> sort_expr,
                 params |-> params])
        ELSE Internal("could not find time column for GapFillExec")

\* try_new that removes the time column and appends it, instead of the swap
GapFillExec_try_new_move_to_end(input, group_expr, aggr_expr, params) ==
    LET sort_expr == [i \in 1..Len(group_expr) |->
                        [expr |-> group_expr[i], options |-> SortOptions_default]]
        found == {i \in 1..Len(group_expr) : is_time_column(group_expr[i], params)}
    IN  IF found # {}
        THEN LET time_idx == CHOOSE i \in found : \A j \in found : i <= j
             IN  Ok([input |-> input, group_expr |-> group_expr,
                     aggr_expr |-> aggr_expr,
                     sort_expr |-> SubSeq(sort_expr, 1, time_idx - 1)
                                   \o SubSeq(sort_expr, time_idx + 1, Len(sort_expr))
                                   \o <<sort_expr[time_idx]>>,
                     params |-> params])
        ELSE Internal("could not find time column for GapFillExec")

\* GapFillExec::try_new
GapFillExec_try_new(input, group_expr, aggr_expr, params) ==
    LET sort_expr == [i \in 1..Len(group_expr) |->
                        [expr |-> group_expr[i], options |-> SortOptions_default]]
        found == {i \in 1..Len(group_expr) : is_time_column(group_expr[i], params)}
    IN  IF found # {}
        THEN LET time_idx == CHOOSE i \in found : \A j \in found : i <= j
                 last_elem == Len(sort_expr)
             IN  Ok([input |-> input, group_expr |-> group_expr,
                     aggr_expr |-> aggr_expr,
                     sort_expr |-> swap(sort_expr, time_idx, last_elem),
                     params |-> params])
        ELSE Internal("could not find time column for GapFillExec")

\* plan_gap_fill
plan_gap_fill(gap_fill, logical_inputs, physical_inputs) ==
    IF Len(logical_inputs) # 1
    THEN Internal("GapFillExec: wrong number of logical inputs")
    ELSE IF Len(physical_inputs) # 1
    THEN Internal("GapFillExec: wrong number of physical inputs")
    ELSE
    LET input_dfschema == logical_inputs[1].schema
        input_schema == physical_inputs[1].schema
        phys(e) == create_physical_expr(e, input_dfschema, input_schema)
        group_expr == try_collect([i \in 1..Len(gap_fill.group_expr) |->
                                     phys(gap_fill.group_expr[i])])
        aggr_expr == try_collect([i \in 1..Len(gap_fill.aggr_expr) |->
                                    phys(gap_fill.aggr_expr[i])])
        logical_time_column == try_into_col(gap_fill.params.time_column)
        time_column == Column_new_with_schema(logical_time_column.v.name, input_schema)
        stride == phys(gap_fill.params.stride)
        bounds == {gap_fill.params.time_range.start, gap_fill.params.time_range.end}
        bound_exprs == {b.e : b \in {c \in bounds : c.bound # "Unbounded"}}
        time_range == try_map_range(gap_fill.params.time_range,
                        [b \in bounds |->
                            try_map_bound(b, [e \in bound_exprs |-> phys(e)])])
    IN  IF ~IsOk(group_expr) THEN Err(group_expr.kind, group_expr.msg)
        ELSE IF ~IsOk(aggr_expr) THEN Err(aggr_expr.kind, aggr_expr.msg)
        ELSE IF ~IsOk(logical_time_column)
        THEN Err(logical_time_column.kind, logical_time_column.msg)
        ELSE IF ~IsOk(time_column) THEN Err(time_column.kind, time_column.msg)
        ELSE IF ~IsOk(stride) THEN Err(stride.kind, stride.msg)
        ELSE IF ~IsOk(time_range) THEN Err(time_range.kind, time_range.msg)
        ELSE GapFillExec_try_new(physical_inputs[1], group_expr.v, aggr_expr.v,
                                 [stride |-> stride.v,
                                  time_column |-> time_column.v,
                                  time_range |-> time_range.v])

----------------------------------------------------------------------------
(* The physical node *)

\* GapFillExec::schema
GapFillExec_schema(self) == self.input.schema

\* GapFillExec::output_partitioning: the partition count of UnknownPartitioning(1)
output_partitioning(self) == 1

\* GapFillExec::required_input_ordering
required_input_ordering(self) == <<self.sort_expr>>

\* GapFillExec::children
children(self) == <<self.input>>

\* with_new_children that keeps the old child
with_new_children_keep_input(self, new_children) ==
    IF Len(new_children) = 1
    THEN GapFillExec_try_new(self.input, self.group_expr, self.aggr_expr,
                             self.params)
    ELSE Internal("GapFillExec wrong number of children")

\* with_new_children that takes the first of any number of children
with_new_children_at_least_one(self, new_children) ==
    IF Len(new_children) >= 1
    THEN GapFillExec_try_new(new_children[1], self.group_expr, self.aggr_expr,
                             self.params)
    ELSE Internal("GapFillExec wrong number of children")

\* GapFillExec::with_new_children
with_new_children(self, new_children) ==
    IF Len(new_children) = 1
    THEN GapFillExec_try_new(new_children[1], self.group_expr, self.aggr_expr,
                             self.params)
    ELSE Internal("GapFillExec wrong number of children")

\* execute with the partition check off by one
execute_off_by_one(self, partition) ==
    IF output_partitioning(self) < partition
    THEN Internal("GapFillExec invalid partition")
    ELSE Err("NotImplemented", "gap filling")

\* GapFillExec::execute
execute(self, partition) ==
    IF output_partitioning(self) <= partition
    THEN Internal("GapFillExec invalid partition")
    ELSE Err("NotImplemented", "gap filling")

----------------------------------------------------------------------------
(* The state machine: a logical node is built by the optimizer, cloned by  *)
(* plan rewrites, then planned into a physical node, which is cloned by    *)
(* physical rewrites and executed.                                         *)

NoNode == [node |-> "none"]

\* the nodes GapFill::try_new builds
LogicalNodes ==
    {GapFill_try_new(i, g, a, p).v :
        i \in LogicalPlans, g \in SeqUpTo(GroupExprs, MaxGroup),
        a \in SeqUpTo(AggrExprs, MaxAggr), p \in GapFillParams}

\* the expression lists a rewrite hands to from_template of a node of n group
\* expressions: n rewritten group expressions, then the rewritten aggregates
TemplateLists(n) ==
    {g \o a : g \in [1..n -> GroupExprs], a \in SeqUpTo(AggrExprs, MaxAggr)}

\* rows of the child's stream: (series key, time, aggregate)
Rows == [key : {"A"}, time : RangeLo..(RangeHi - 1), aggr : {10}]

\* the streams of at most MaxRows rows in the required order: one series key,
\* ascending time
SortedStreams ==
    {rs \in SeqUpTo(Rows, MaxRows) :
        \A i \in 1..(Len(rs) - 1) : rs[i].time < rs[i + 1].time}

Outcome(r) == [kind |-> r.kind, msg |-> r.msg]

\* the rows a consumer reads from the result of execute: none without a stream
StreamRows(r) == IF IsOk(r) THEN r.v ELSE <<>>

Init ==
    /\ pc = "logical"
    /\ gapfill \in LogicalNodes
    /\ exec = NoNode
    /\ call = [op |-> "try_new"]
    /\ result = Outcome(Ok(0))

\* a plan rewrite clones the logical node
FromTemplate ==
    /\ pc = "logical"
    /\ \E exprs \in TemplateLists(Len(gapfill.group_expr)),
          inputs \in [1..1 -> LogicalPlans] :
        /\ gapfill' = from_template(gapfill, exprs, inputs)
        /\ call' = [op |-> "from_template", exprs |-> exprs, inputs |-> inputs]
    /\ result' = Outcome(Ok(0))
    /\ UNCHANGED <<pc, exec>>

\* the extension planner plans the logical node: it is handed the node's
\* inputs and their physical plans, which have the schemas of the logical ones
PlanGapFill ==
    /\ pc = "logical"
    /\ \E logical_inputs \in SeqUpTo({gapfill.input}, MaxInputs),
          physical_inputs \in SeqUpTo(PhysicalPlans, MaxInputs) :
        /\ \A i \in 1..Len(physical_inputs) :
              i <= Len(logical_inputs)
                => physical_inputs[i].schema = logical_inputs[i].schema
        /\ LET r == plan_gap_fill(gapfill, logical_inputs, physical_inputs)
           IN  /\ result' = Outcome(r)
               /\ exec' = IF IsOk(r) THEN r.v ELSE NoNode
               /\ pc' = IF IsOk(r) THEN "physical" ELSE "plan_failed"
        /\ call' = [op |-> "plan_gap_fill", logical_inputs |-> logical_inputs,
                    physical_inputs |-> physical_inputs]
    /\ UNCHANGED gapfill

\* a physical rewrite clones the physical node
WithNewChildren ==
    /\ pc = "physical"
    /\ \E new_children \in SeqUpTo(PhysicalPlans, MaxInputs) :
        /\ LET r == with_new_children(exec, new_children)
           IN  /\ result' = Outcome(r)
               /\ exec' = IF IsOk(r) THEN r.v ELSE exec
        /\ call' = [op |-> "with_new_children", children |-> new_children]
    /\ UNCHANGED <<pc, gapfill>>

\* the engine executes one partition of the physical node over the sorted
\* stream of its child
Execute ==
    /\ pc = "physical"
    /\ \E partition \in 0..MaxPartition, rows \in SortedStreams :
        /\ result' = [kind |-> execute(exec, partition).kind,
                      msg |-> execute(exec, partition).msg,
                      rows |-> StreamRows(execute(exec, partition))]
        /\ call' = [op |-> "execute", partition |-> partition, rows |-> rows]
    /\ UNCHANGED <<pc, gapfill, exec>>

Next == FromTemplate \/ PlanGapFill \/ WithNewChildren \/ Execute

Spec == Init /\ [][Next]_vars

----------------------------------------------------------------------------
(* Claims *)

\* C1: schema() of a logical or physical node is the schema of its current
\* child: after from_template it is the schema of the new input, after
\* planning that of the physical input, after with_new_children that of the
\* new child.
SchemaPassthrough ==
    /\ (pc = "logical" /\ call.op = "try_new")
          => GapFill_schema(gapfill) = GapFill_inputs(gapfill)[1].schema
    /\ (pc = "logical" /\ call.op = "from_template")
          => GapFill_schema(gapfill) = call.inputs[1].schema
    /\ (pc = "physical" /\ call.op = "plan_gap_fill")
          => GapFillExec_schema(exec) = call.physical_inputs[1].schema
    /\ (pc = "physical" /\ call.op = "with_new_children" /\ result.kind = "Ok")
          => GapFillExec_schema(exec) = call.children[1].schema

\* a physical node cloned onto a child whose schema differs from the planned one
SchemaPassthroughWitness ==
    /\ pc = "physical"
    /\ call.op = "with_new_children"
    /\ result.kind = "Ok"
    /\ call.children[1].schema # gapfill.input.schema
    /\ GapFillExec_schema(exec) = call.children[1].schema

\* the number of positions of a sequence holding e
Count(v, e) == Cardinality({i \in 1..Len(v) : v[i] = e})

\* C2: the required input ordering of a constructed GapFillExec is one list,
\* a permutation of the group expressions, every entry ascending with the
\* default null ordering, the time column last.
SortOrderTimeLast ==
    pc = "physical" =>
        LET ord == required_input_ordering(exec)
            keys == [i \in 1..Len(ord[1]) |-> ord[1][i].expr]
        IN  /\ Len(ord) = 1
            /\ Len(keys) = Len(exec.group_expr)
            /\ \A i \in 1..Len(keys) :
                  Count(keys, keys[i]) = Count(exec.group_expr, keys[i])
            /\ \A i \in 1..Len(keys) :
                  /\ ord[1][i].options.descending = FALSE
                  /\ ord[1][i].options.nulls_first = TRUE
            /\ Len(keys) >= 1
            /\ keys[Len(keys)].kind = "Column"
            /\ keys[Len(keys)].index = exec.params.time_column.index

\* three group expressions, the time column first: it is moved to the end
SortOrderTimeLastWitness ==
    /\ pc = "physical"
    /\ Len(exec.group_expr) = 3
    /\ exec.group_expr[1].name = "time"
    /\ exec.group_expr[2].name = "loc"
    /\ exec.group_expr[3].kind = "Literal"
    /\ exec.sort_expr[3].expr.name = "time"

\* C3: execute of a partition other than 0 fails with an internal error and
\* no stream.
ExecuteOtherPartitionFails ==
    (call.op = "execute" /\ call.partition # 0)
        => (result.kind = "Internal" /\ result.rows = <<>>)

\* partition 1, the first one past the single output partition
ExecuteOtherPartitionWitness ==
    /\ call.op = "execute"
    /\ call.partition = 1
    /\ result.kind = "Internal"

\* C4: execute of partition 0 of a constructed node returns a stream, not an
\* error.
ExecutePartitionZeroSucceeds ==
    (call.op = "execute" /\ call.partition = 0) => result.kind = "Ok"

\* aligned timestamps of a range, for an origin of 0 and a positive stride
bucket_grid(tr, stride) ==
    {t \in RangeLo..RangeHi :
        /\ t % stride = 0
        /\ (tr.start.bound = "Included" => t >= tr.start.e.val)
        /\ (tr.start.bound = "Excluded" => t > tr.start.e.val)
        /\ (tr.end.bound = "Included" => t <= tr.end.e.val)
        /\ (tr.end.bound = "Excluded" => t < tr.end.e.val)}

\* C5: executed over a sorted input with a bounded range and a positive
\* stride, the output has exactly one row for every series key of the input
\* and every timestamp of the bucket grid.
BucketCoverage ==
    (/\ call.op = "execute"
     /\ call.partition = 0
     /\ exec.params.stride.val > 0
     /\ exec.params.time_range.start.bound # "Unbounded"
     /\ exec.params.time_range.end.bound # "Unbounded")
        => \A i \in 1..Len(call.rows) :
             \A t \in bucket_grid(exec.params.time_range, exec.params.stride.val) :
               Cardinality({j \in 1..Len(result.rows) :
                              /\ result.rows[j].key = call.rows[i].key
                              /\ result.rows[j].time = t}) = 1

\* C6: planning a node whose time range has an Unbounded endpoint fails.
PlanUnboundedRangeFails ==
    (/\ call.op = "plan_gap_fill"
     /\ \/ gapfill.params.time_range.start.bound = "Unbounded"
        \/ gapfill.params.time_range.end.bound = "Unbounded")
        => (result.kind # "Ok" /\ exec = NoNode)

\* C7: planning a node whose stride is zero or negative fails.
PlanNonPositiveStrideFails ==
    (call.op = "plan_gap_fill" /\ gapfill.params.stride.val <= 0)
        => (result.kind # "Ok" /\ exec = NoNode)

\* the group expressions that are a column reference to the time column
TimeRefs(node) ==
    {i \in 1..Len(node.group_expr) :
        /\ node.group_expr[i].kind = "Column"
        /\ node.group_expr[i].name = node.params.time_column.name}

\* C8: construction of a GapFillExec fails with the internal error "could not
\* find time column" and yields no node exactly when no group expression is a
\* column reference to the time column; otherwise it succeeds.
TryNewNeedsTimeColumn ==
    /\ (/\ call.op = "plan_gap_fill"
        /\ Len(call.logical_inputs) = 1
        /\ Len(call.physical_inputs) = 1)
          => IF TimeRefs(gapfill) = {}
             THEN /\ result = Outcome(Internal("could not find time column for GapFillExec"))
                  /\ exec = NoNode
                  /\ pc = "plan_failed"
             ELSE /\ result.kind = "Ok"
                  /\ pc = "physical"
                  /\ exec.group_expr # <<>>
    /\ (call.op = "with_new_children" /\ Len(call.children) = 1)
          => result.kind = "Ok"

\* two group expressions, neither the time column: no node
TryNewNeedsTimeColumnWitness ==
    /\ pc = "plan_failed"
    /\ Len(gapfill.group_expr) = 2
    /\ TimeRefs(gapfill) = {}
    /\ result.msg = "could not find time column for GapFillExec"

\* C9: in a constructed GapFillExec the time column appears exactly once among
\* the group expressions.
TimeColumnExactlyOnce ==
    pc = "physical" =>
        Cardinality({i \in 1..Len(exec.group_expr) :
                        /\ exec.group_expr[i].kind = "Column"
                        /\ exec.group_expr[i].index = exec.params.time_column.index}) = 1

\* C10: from_template splits the expression list at |G| of the original node
\* and keeps the params; given expressions() of the original it yields the
\* original's group and aggregate expressions.
FromTemplateStep ==
    call'.op = "from_template" =>
        LET n == Len(gapfill.group_expr)
        IN  /\ Len(gapfill'.group_expr) = n
            /\ \A i \in 1..n : gapfill'.group_expr[i] = call'.exprs[i]
            /\ Len(gapfill'.aggr_expr) = Len(call'.exprs) - n
            /\ \A j \in 1..(Len(call'.exprs) - n) :
                  gapfill'.aggr_expr[j] = call'.exprs[n + j]
            /\ gapfill'.params = gapfill.params
            /\ gapfill'.input = call'.inputs[1]
            /\ (\A i \in 1..n : expressions(gapfill)[i] = gapfill.group_expr[i])
            /\ (\A j \in 1..Len(gapfill.aggr_expr) :
                  expressions(gapfill)[n + j] = gapfill.aggr_expr[j])
            /\ Len(expressions(gapfill)) = n + Len(gapfill.aggr_expr)
            /\ call'.exprs = expressions(gapfill)
                  => /\ gapfill'.group_expr = gapfill.group_expr
                     /\ gapfill'.aggr_expr = gapfill.aggr_expr

FromTemplateRoundTrip == [][FromTemplateStep]_vars

\* a clone of a node of two group expressions and one aggregate, from a list
\* whose aggregate differs from both
FromTemplateRoundTripWitness ==
    /\ pc = "logical"
    /\ call.op = "from_template"
    /\ Len(gapfill.group_expr) = 2
    /\ Len(gapfill.aggr_expr) = 1
    /\ call.exprs = expressions(gapfill)
    /\ gapfill.group_expr[1] # gapfill.group_expr[2]
    /\ gapfill.aggr_expr[1] # gapfill.group_expr[1]
    /\ gapfill.aggr_expr[1] # gapfill.group_expr[2]

\* C11: with_new_children given exactly one child returns a node whose
\* children() is that child and whose group expressions, aggregate
\* expressions, params and required input ordering are those of the original;
\* given no child or more than one it returns an internal error and no node.
WithNewChildrenStep ==
    call'.op = "with_new_children" =>
        IF Len(call'.children) = 1
        THEN /\ result'.kind = "Ok"
             /\ children(exec') = <<call'.children[1]>>
             /\ exec'.group_expr = exec.group_expr
             /\ exec'.aggr_expr = exec.aggr_expr
             /\ exec'.params = exec.params
             /\ required_input_ordering(exec') = required_input_ordering(exec)
        ELSE /\ result' = Outcome(Internal("GapFillExec wrong number of children"))
             /\ exec' = exec

WithNewChildrenPreserves == [][WithNewChildrenStep]_vars

\* a node of three group expressions, the time column first, cloned onto a
\* child other than the one it was planned with
WithNewChildrenPreservesWitness ==
    /\ pc = "physical"
    /\ call.op = "with_new_children"
    /\ Len(call.children) = 1
    /\ result.kind = "Ok"
    /\ children(exec) = call.children
    /\ call.children[1].schema # gapfill.input.schema
    /\ Len(exec.group_expr) = 3
    /\ Len(exec.aggr_expr) = 1
    /\ exec.group_expr[1].name = "time"
    /\ exec.sort_expr[3].expr.name = "time"

\* the positions of the group expressions of a physical node that are the
\* time column
TimePositions(node) ==
    {i \in 1..Len(node.group_expr) :
        /\ node.group_expr[i].kind = "Column"
        /\ node.group_expr[i].index = node.params.time_column.index}

\* the sort keys of the required input ordering
SortKeys(node) ==
    [i \in 1..Len(required_input_ordering(node)[1]) |->
        required_input_ordering(node)[1][i].expr]

\* the group expressions without position t, then the expression of position t
MovedToEnd(g, t) ==
    [i \in 1..Len(g) |-> IF i < t THEN g[i] ELSE IF i < Len(g) THEN g[i + 1] ELSE g[t]]

\* C12 as stated: whatever the position of the time column in G, the required
\* input ordering is the non-time group expressions in their order of G,
\* followed by the time column.
NonTimeOrderKept ==
    (pc = "physical" /\ Cardinality(TimePositions(exec)) = 1)
        => \A t \in TimePositions(exec) :
             SortKeys(exec) = MovedToEnd(exec.group_expr, t)

\* C12 as amended: the first time column of G and the last entry of G exchange
\* places and every other group expression keeps its position, so the non-time
\* group expressions keep their order of G when the time column is the last or
\* the second to last entry of G.
SortOrderIsSwap ==
    pc = "physical" =>
        LET g == exec.group_expr
            n == Len(g)
            t == CHOOSE i \in TimePositions(exec) :
                    \A j \in TimePositions(exec) : i <= j
            keys == SortKeys(exec)
        IN  /\ TimePositions(exec) # {}
            /\ Len(keys) = n
            /\ keys[n] = g[t]
            /\ keys[t] = g[n]
            /\ \A i \in 1..n : (i # t /\ i # n) => keys[i] = g[i]
            /\ t >= n - 1 => keys = MovedToEnd(g, t)

\* the time column first of three distinct group expressions: the last one
\* takes its place
SortOrderIsSwapWitness ==
    /\ pc = "physical"
    /\ call.op = "plan_gap_fill"
    /\ Len(exec.group_expr) = 3
    /\ TimePositions(exec) = {1}
    /\ exec.group_expr[2].name = "loc"
    /\ exec.group_expr[3].kind = "Literal"
    /\ SortKeys(exec) = <<exec.group_expr[3], exec.group_expr[2], exec.group_expr[1]>>

====
